---- MODULE Spec2Model ----
(***************************************************************************)
(* Model of package dnsprobe: ProbeA (one timed DNS exchange over UDP),    *)
(* BenchmarkSerial and BenchmarkConcurrent (n probes reduced to success /  *)
(* failure counts and per-phase averages).                                 *)
(*                                                                         *)
(* Time is discrete.  The timeout is Timeout ticks; every reading of the    *)
(* clock inside a call is at least the previous one.  The environment      *)
(* decides how long each operation takes and whether it fails.             *)
(***************************************************************************)
EXTENDS Integers, Sequences, FiniteSets, TLC

\* Largest n passed to a benchmark.
MaxN == 2

\* Total number of clock ticks the environment lets pass during one serial run.
MaxTicks == 3

\* Total number of clock ticks the environment lets pass during one concurrent run.
MaxConcTicks == 1

\* timeout := 3 * time.Second, on a clock whose tick is half of it.
Timeout == 2

Calls == 1 .. MaxN

Min(a, b) == IF a <= b THEN a ELSE b

\* Go's integer division truncates toward zero.
Quot_Ceil(a, b) == (a + b - 1) \div b

Quot(a, b) == IF a >= 0 THEN a \div b ELSE -((-a) \div b)

\* Timings{}
ZeroTimings ==
  [Total |-> 0, Dial |-> 0, Pack |-> 0, Write |-> 0, Read |-> 0,
   Unpack |-> 0, RTTApprox |-> 0]

Phases == {"Total", "Dial", "Pack", "Write", "Read", "Unpack", "RTTApprox"}

add_RTTLast(a, b) ==
  [Total     |-> a.Total + b.Total,
   Dial      |-> a.Dial + b.Dial,
   Pack      |-> a.Pack + b.Pack,
   Write     |-> a.Write + b.Write,
   Read      |-> a.Read + b.Read,
   Unpack    |-> a.Unpack + b.Unpack,
   RTTApprox |-> b.RTTApprox]

add_DropRead(a, b) ==
  [Total     |-> a.Total + b.Total,
   Dial      |-> a.Dial + b.Dial,
   Pack      |-> a.Pack + b.Pack,
   Write     |-> a.Write + b.Write,
   Read      |-> a.Read,
   Unpack    |-> a.Unpack + b.Unpack,
   RTTApprox |-> a.RTTApprox + b.RTTApprox]

add(a, b) ==
  [Total     |-> a.Total + b.Total,
   Dial      |-> a.Dial + b.Dial,
   Pack      |-> a.Pack + b.Pack,
   Write     |-> a.Write + b.Write,
   Read      |-> a.Read + b.Read,
   Unpack    |-> a.Unpack + b.Unpack,
   RTTApprox |-> a.RTTApprox + b.RTTApprox]

avg(s, k) ==
  IF k <= 0
  THEN ZeroTimings
  ELSE [Total     |-> Quot(s.Total, k),
        Dial      |-> Quot(s.Dial, k),
        Pack      |-> Quot(s.Pack, k),
        Write     |-> Quot(s.Write, k),
        Read      |-> Quot(s.Read, k),
        Unpack    |-> Quot(s.Unpack, k),
        RTTApprox |-> Quot(s.RTTApprox, k)]

\* Benchmark{Attempts: n, Success: ok, Fail: fail, Avg: avg(sum, ok)}
MkBenchmark(cnt, s, o, f) ==
  [Attempts |-> cnt, Success |-> o, Fail |-> f, Avg |-> avg(s, o)]

NoBenchmark == [Attempts |-> -1, Success |-> -1, Fail |-> -1, Avg |-> ZeroTimings]

\* The locals of one ProbeA call.  clk is the time since startTotal and
\* tDial is startDial on that clock.
ZeroFrame ==
  [clk |-> 0, deadline |-> 0, conn |-> 0, err |-> FALSE,
   pack |-> 0, dial |-> 0, write |-> 0, read |-> 0, unpack |-> 0, total |-> 0,
   tDial |-> 0]

OkRet_RTTReadOnly(f) ==
  [set |-> TRUE, err |-> FALSE,
   t |-> [Total     |-> f.total,
          Dial      |-> f.dial,
          Pack      |-> f.pack,
          Write     |-> f.write,
          Read      |-> f.read,
          Unpack    |-> f.unpack,
          RTTApprox |-> f.read]]

\* (Result, error) as the callers use it: the error and Result.Timings.
NoRet == [set |-> FALSE, err |-> FALSE, t |-> ZeroTimings]

\* return Result{}, err
ErrRet == [set |-> TRUE, err |-> TRUE, t |-> ZeroTimings]

\* return r, nil  with r.Timings built from the measured durations.
OkRet(f) ==
  [set |-> TRUE, err |-> FALSE,
   t |-> [Total     |-> f.total,
          Dial      |-> f.dial,
          Pack      |-> f.pack,
          Write     |-> f.write,
          Read      |-> f.read,
          Unpack    |-> f.unpack,
          RTTApprox |-> f.write + f.read]]

\* ("", nil-or-error) of randomLabel and RandomDomain128WithCOM before they return
NoStr == [set |-> FALSE, err |-> FALSE, s |-> <<>>]

NoSock == [state |-> "none", opener |-> 0, users |-> {}]

ZeroOps ==
  [call |-> 0, dial |-> 0, dialok |-> 0, write |-> 0, read |-> 0,
   open |-> 0, close |-> 0]

VARIABLES
  discipline,  \* "serial" (BenchmarkSerial) or "concurrent" (BenchmarkConcurrent)
  n,           \* the requested count
  qnameOK,     \* whether msg.Pack() succeeds for the queried name
  mpc,         \* position of the benchmark function
  i,           \* its loop variable
  sum, ok, fail,
  bench,       \* the returned Benchmark
  pc,          \* position of each ProbeA call / goroutine
  fr,          \* locals of each ProbeA call
  ret,         \* what each ProbeA call returned
  socks,       \* the connections handed out by the dialer
  ch, chCap, chClosed, wg,
  panicked,    \* a goroutine sent on a closed channel
  ticks,       \* clock ticks spent so far in the run
  ops,         \* per call: invocations, dials, writes, reads, sockets opened / closed
  sendLog,     \* the goroutines in the order their channel writes completed
  consumed     \* outcomes the reduction loop has received

VARIABLES
  canceled     \* whether the ctx passed to ProbeA is done

VARIABLES
  npc,         \* position of a ProbeA call in its handling of `server`
  srvIn,       \* the server argument as the caller passed it
  server,      \* ProbeA's variable `server`
  dialed,      \* the address handed to DialContext
  reported     \* Result.Server

normVars == <<npc, srvIn, server, dialed, reported>>

VARIABLES
  caller,      \* who calls randomLabel: "label" (a direct call) or "domain"
  lpc,         \* position of the randomLabel call
  ln,          \* its argument n
  seed,        \* the first byte crypto/rand will deliver
  stride,      \* the difference between one delivered byte and the next
  rpos,        \* number of random bytes delivered so far
  out,         \* randomLabel's out
  lret,        \* what randomLabel returned
  randErr,     \* whether a rand.Read has failed
  dpc,         \* position of RandomDomain128WithCOM
  l1,          \* its l1
  dret         \* what it returned

labelVars == <<caller, lpc, ln, seed, stride, rpos, out, lret, randErr, dpc, l1, dret>>

vars ==
  <<discipline, n, qnameOK, canceled, normVars, labelVars, mpc, i, sum, ok, fail, bench, pc, fr, ret, socks,
    ch, chCap, chClosed, wg, panicked, ticks, ops, sendLog, consumed>>

mainVars == <<mpc, i, sum, ok, fail, bench>>
chanVars == <<ch, chCap, chClosed, wg, panicked, sendLog, consumed>>
inputVars == <<discipline, n, qnameOK, canceled, normVars, labelVars>>

Left == (IF discipline = "serial" THEN MaxTicks ELSE MaxConcTicks) - ticks

InitCommon ==
  /\ n \in 0 .. MaxN
  /\ qnameOK \in BOOLEAN
  /\ canceled = FALSE
  /\ npc = "off"
  /\ srvIn = <<>>
  /\ server = <<>>
  /\ dialed = <<>>
  /\ reported = <<>>
  /\ caller = "label"
  /\ lpc = "off"
  /\ ln = 0
  /\ seed = 0
  /\ stride = 0
  /\ rpos = 0
  /\ out = <<>>
  /\ lret = NoStr
  /\ randErr = FALSE
  /\ dpc = "off"
  /\ l1 = <<>>
  /\ dret = NoStr
  /\ i = 0
  /\ sum = ZeroTimings
  /\ ok = 0
  /\ fail = 0
  /\ bench = NoBenchmark
  /\ pc = [c \in Calls |-> "idle"]
  /\ fr = [c \in Calls |-> ZeroFrame]
  /\ ret = [c \in Calls |-> NoRet]
  /\ socks = [c \in Calls |-> NoSock]
  /\ ch = <<>>
  /\ chCap = 0
  /\ chClosed = FALSE
  /\ wg = 0
  /\ panicked = FALSE
  /\ ticks = 0
  /\ ops = [c \in Calls |-> ZeroOps]
  /\ sendLog = <<>>
  /\ consumed = 0

Init ==
  /\ discipline \in {"serial", "concurrent"}
  /\ mpc = IF discipline = "serial" THEN "loop" ELSE "setup"
  /\ InitCommon

(***************************************************************************)
(* ProbeA.  A call c sits at the statement it executes next:               *)
(*   idle -> pack -> dial -> deadline -> write -> read -> unpack -> finish *)
(*        -> close (the deferred conn.Close) -> ret (returned to caller).  *)
(* Each step lets g ticks pass before its start stamp and d ticks during   *)
(* the operation it times.                                                 *)
(***************************************************************************)

PackErrPc_FallThrough == "dial"

\* if err != nil { return Result{}, err } after msg.Pack(): nothing is deferred yet.
PackErrPc == "ret"

DialErrPc_DeferFirst == "close"

\* if err != nil { return Result{}, err } after d.DialContext: nothing is deferred yet.
DialErrPc == "ret"

AfterDialPc_NoDeadline == "write"

\* After a successful dial and `defer conn.Close()`: conn.SetDeadline.
AfterDialPc == "deadline"

TotalDur_StartAtDial(f, g) == f.clk + g - f.tDial

\* totalDur := time.Since(startTotal), read g ticks after the unpack ended.
TotalDur(f, g) == f.clk + g

\* The dialer hands every call a connection of its own.
NewConn(c) == c

\* A return after `defer conn.Close()` runs the deferred close first.
DeferredExitPc == "close"

AfterWritePc_NoClose(okv) == IF okv THEN "read" ELSE "ret"

\* After conn.Write: on to the read, or return through the deferred close.
AfterWritePc(okv) == IF okv THEN "read" ELSE DeferredExitPc

AfterReadPc_Retry(okv) == IF okv THEN "unpack" ELSE "read"

\* After conn.Read: on to the unpack, or return through the deferred close.
AfterReadPc(okv) == IF okv THEN "unpack" ELSE DeferredExitPc

Room_NoDeadline(f, start) == MaxTicks

\* Time left before the connection's deadline at instant `start`.
Room(f, start) == IF f.deadline > start THEN f.deadline - start ELSE 0

Use(c) ==
  socks' = [socks EXCEPT ![fr[c].conn].users = @ \cup {c}]

\* startTotal := time.Now(); wire, err := msg.Pack(); packDur := time.Since(startPack)
Pack(c) ==
  /\ pc[c] = "pack"
  /\ \E g \in 0 .. Left :
       \E d \in 0 .. (Left - g) :
         /\ ticks' = ticks + g + d
         /\ IF qnameOK
            THEN /\ fr' = [fr EXCEPT ![c] = [ZeroFrame EXCEPT !.clk = g + d, !.pack = d]]
                 /\ pc' = [pc EXCEPT ![c] = "dial"]
                 /\ ret' = ret
            ELSE /\ fr' = [fr EXCEPT ![c] = ZeroFrame]
                 /\ pc' = [pc EXCEPT ![c] = PackErrPc]
                 /\ ret' = [ret EXCEPT ![c] = ErrRet]
  /\ UNCHANGED <<inputVars, mainVars, chanVars, socks, ops>>

DialMaySucceed_IgnoreCtx == TRUE

\* DialContext returns an error once ctx is done.
DialMaySucceed == ~canceled

\* conn, err := d.DialContext(ctx, "udp", server) with Dialer{Timeout: timeout};
\* dialDur := time.Since(startDial); defer conn.Close()
Dial(c) ==
  /\ pc[c] = "dial"
  /\ \E g \in 0 .. Left :
       \E d \in 0 .. Min(Timeout, Left - g) :
         \E okv \in BOOLEAN :
           /\ okv => DialMaySucceed
           /\ ticks' = ticks + g + d
           /\ IF okv
              THEN /\ fr' = [fr EXCEPT ![c].clk = @ + g + d, ![c].dial = d,
                                       ![c].tDial = fr[c].clk + g,
                                       ![c].conn = NewConn(c)]
                   /\ socks' = [socks EXCEPT ![NewConn(c)] =
                                  [state |-> "open",
                                   opener |-> IF @.opener = 0 THEN c ELSE @.opener,
                                   users |-> @.users \cup {c}]]
                   /\ ops' = [ops EXCEPT ![c].dial = @ + 1, ![c].dialok = @ + 1,
                                         ![c].open = @ + 1]
                   /\ pc' = [pc EXCEPT ![c] = AfterDialPc]
                   /\ ret' = ret
              ELSE /\ fr' = [fr EXCEPT ![c] = ZeroFrame]
                   /\ socks' = socks
                   /\ ops' = [ops EXCEPT ![c].dial = @ + 1]
                   /\ pc' = [pc EXCEPT ![c] = DialErrPc]
                   /\ ret' = [ret EXCEPT ![c] = ErrRet]
  /\ UNCHANGED <<inputVars, mainVars, chanVars>>

\* _ = conn.SetDeadline(time.Now().Add(timeout)); conn.LocalAddr(); conn.RemoteAddr()
SetDeadline(c) ==
  /\ pc[c] = "deadline"
  /\ \E g \in 0 .. Left :
       /\ ticks' = ticks + g
       /\ fr' = [fr EXCEPT ![c].clk = @ + g, ![c].deadline = fr[c].clk + g + Timeout]
  /\ Use(c)
  /\ pc' = [pc EXCEPT ![c] = "write"]
  /\ UNCHANGED <<inputVars, mainVars, chanVars, ret, ops>>

\* nw, err := conn.Write(wire); writeDur := time.Since(startWrite)
Write(c) ==
  /\ pc[c] = "write"
  /\ \E g \in 0 .. Left :
       \E d \in 0 .. Min(Room(fr[c], fr[c].clk + g), Left - g) :
         \E okv \in BOOLEAN :
           /\ okv => fr[c].clk + g < fr[c].deadline
           /\ ticks' = ticks + g + d
           /\ fr' = [fr EXCEPT ![c].clk = @ + g + d, ![c].write = d, ![c].err = ~okv]
           /\ pc' = [pc EXCEPT ![c] = AfterWritePc(okv)]
           /\ ops' = [ops EXCEPT ![c].write = @ + 1]
  /\ Use(c)
  /\ UNCHANGED <<inputVars, mainVars, chanVars, ret>>

\* nr, err := conn.Read(buf); readDur := time.Since(startRead)
Read(c) ==
  /\ pc[c] = "read"
  /\ \E g \in 0 .. Left :
       \E d \in 0 .. Min(Room(fr[c], fr[c].clk + g), Left - g) :
         \E okv \in BOOLEAN :
           /\ okv => fr[c].clk + g < fr[c].deadline
           /\ ticks' = ticks + g + d
           /\ fr' = [fr EXCEPT ![c].clk = @ + g + d, ![c].read = d, ![c].err = ~okv]
           /\ pc' = [pc EXCEPT ![c] = AfterReadPc(okv)]
           /\ ops' = [ops EXCEPT ![c].read = @ + 1]
  /\ Use(c)
  /\ UNCHANGED <<inputVars, mainVars, chanVars, ret>>

\* if err := resp.Unpack(buf[:nr]); err != nil { return Result{}, err }
\* unpackDur := time.Since(startUnpack)
Unpack(c) ==
  /\ pc[c] = "unpack"
  /\ \E g \in 0 .. Left :
       \E d \in 0 .. (Left - g) :
         \E okv \in BOOLEAN :
           /\ ticks' = ticks + g + d
           /\ fr' = [fr EXCEPT ![c].clk = @ + g + d,
                               ![c].unpack = IF okv THEN d ELSE 0,
                               ![c].err = ~okv]
           /\ pc' = [pc EXCEPT ![c] = IF okv THEN "finish" ELSE DeferredExitPc]
  /\ UNCHANGED <<inputVars, mainVars, chanVars, ret, socks, ops>>

\* totalDur := time.Since(startTotal); r := Result{...}; return r, nil
Finish(c) ==
  /\ pc[c] = "finish"
  /\ \E g \in 0 .. Left :
       /\ ticks' = ticks + g
       /\ fr' = [fr EXCEPT ![c].clk = @ + g, ![c].total = TotalDur(fr[c], g)]
  /\ pc' = [pc EXCEPT ![c] = DeferredExitPc]
  /\ UNCHANGED <<inputVars, mainVars, chanVars, ret, socks, ops>>

\* The deferred conn.Close(), then the call returns its values.
Close(c) ==
  /\ pc[c] = "close"
  /\ socks' = IF fr[c].conn \in Calls
              THEN [socks EXCEPT ![fr[c].conn].state = "closed",
                                 ![fr[c].conn].users = @ \cup {c}]
              ELSE socks
  /\ ops' = [ops EXCEPT ![c].close = @ + 1]
  /\ ret' = [ret EXCEPT ![c] = IF fr[c].err THEN ErrRet ELSE OkRet(fr[c])]
  /\ fr' = [fr EXCEPT ![c] = ZeroFrame]
  /\ pc' = [pc EXCEPT ![c] = "ret"]
  /\ UNCHANGED <<inputVars, mainVars, chanVars, ticks>>

(***************************************************************************)
(* BenchmarkSerial                                                         *)
(***************************************************************************)

SerialAcc_ErrCountedOk(acc, r) ==
  IF r.err
  THEN [acc EXCEPT !.ok = @ + 1]
  ELSE [sum |-> add(acc.sum, r.t), ok |-> acc.ok + 1, fail |-> acc.fail]

\* The loop body after ProbeA returned r, err:
\*   if err != nil { fail++; continue }; ok++; sum = add(sum, r.Timings)
SerialAcc(acc, r) ==
  IF r.err
  THEN [acc EXCEPT !.fail = @ + 1]
  ELSE [sum |-> add(acc.sum, r.t), ok |-> acc.ok + 1, fail |-> acc.fail]

SerialNextIndex_BreakOnErr(k, err) == IF err THEN n ELSE k + 1

\* `continue` and the end of the body both go on to i++.
SerialNextIndex(k, err) == k + 1

\* i < n; r, err := ProbeA(ctx, server, qname, timeout)
SerialCall ==
  /\ discipline = "serial"
  /\ mpc = "loop"
  /\ i < n
  /\ pc' = [pc EXCEPT ![i + 1] = "pack"]
  /\ ops' = [ops EXCEPT ![i + 1].call = @ + 1]
  /\ mpc' = "call"
  /\ UNCHANGED <<inputVars, i, sum, ok, fail, bench, fr, ret, socks, chanVars,
                 ticks>>

\* ProbeA has returned: the rest of the loop body, then i++.
SerialStep ==
  /\ discipline = "serial"
  /\ mpc = "call"
  /\ pc[i + 1] = "ret"
  /\ LET acc == SerialAcc([sum |-> sum, ok |-> ok, fail |-> fail], ret[i + 1])
     IN  /\ sum' = acc.sum
         /\ ok' = acc.ok
         /\ fail' = acc.fail
  /\ i' = SerialNextIndex(i, ret[i + 1].err)
  /\ pc' = [pc EXCEPT ![i + 1] = "exit"]
  /\ mpc' = "loop"
  /\ UNCHANGED <<inputVars, bench, fr, ret, socks, chanVars, ticks, ops>>

\* i >= n: return Benchmark{...}
SerialReturn ==
  /\ discipline = "serial"
  /\ mpc = "loop"
  /\ i >= n
  /\ bench' = MkBenchmark(n, sum, ok, fail)
  /\ mpc' = "done"
  /\ UNCHANGED <<inputVars, i, sum, ok, fail, pc, fr, ret, socks, chanVars,
                 ticks, ops>>

(***************************************************************************)
(* BenchmarkConcurrent                                                     *)
(***************************************************************************)

ChanCap_Unbuffered(k) == 0

\* ch := make(chan one, n)
ChanCap(k) == k

WaitReturns_NoWait == TRUE

\* wg.Wait() returns when the counter is zero.
WaitReturns == wg = 0

One_ErrDropped(r) == [t |-> r.t, err |-> FALSE]

\* one{err: err}  or  one{t: r.Timings}
One(r) == [t |-> r.t, err |-> r.err]

ConcAcc_FailNotCounted(acc, v) ==
  IF v.err
  THEN acc
  ELSE [sum |-> add(acc.sum, v.t), ok |-> acc.ok + 1, fail |-> acc.fail]

\* The body of `for v := range ch`.
ConcAcc(acc, v) ==
  IF v.err
  THEN [acc EXCEPT !.fail = @ + 1]
  ELSE [sum |-> add(acc.sum, v.t), ok |-> acc.ok + 1, fail |-> acc.fail]

\* ch := make(chan one, n); var wg sync.WaitGroup; wg.Add(n)
ConcSetup ==
  /\ discipline = "concurrent"
  /\ mpc = "setup"
  /\ chCap' = ChanCap(n)
  /\ wg' = n
  /\ mpc' = "spawn"
  /\ UNCHANGED <<inputVars, i, sum, ok, fail, bench, pc, fr, ret, socks, ch,
                 chClosed, panicked, sendLog, consumed, ticks, ops>>

\* for i := 0; i < n; i++ { go func() {...}() }
Spawn ==
  /\ discipline = "concurrent"
  /\ mpc = "spawn"
  /\ i < n
  /\ pc' = [pc EXCEPT ![i + 1] = "pack"]
  /\ ops' = [ops EXCEPT ![i + 1].call = @ + 1]
  /\ i' = i + 1
  /\ UNCHANGED <<inputVars, mpc, sum, ok, fail, bench, fr, ret, socks, chanVars,
                 ticks>>

\* The goroutine's  ch <- one{...}  after ProbeA returned.
Send(c) ==
  /\ discipline = "concurrent"
  /\ pc[c] = "ret"
  /\ IF chClosed
     THEN /\ panicked' = TRUE
          /\ pc' = [pc EXCEPT ![c] = "panic"]
          /\ UNCHANGED <<ch, sendLog>>
     ELSE /\ Len(ch) < chCap
          /\ ch' = Append(ch, One(ret[c]))
          /\ sendLog' = Append(sendLog, c)
          /\ pc' = [pc EXCEPT ![c] = "wgdone"]
          /\ UNCHANGED panicked
  /\ UNCHANGED <<inputVars, mainVars, fr, ret, socks, chCap, chClosed, wg,
                 consumed, ticks, ops>>

\* The goroutine's deferred wg.Done().
WgDone(c) ==
  /\ discipline = "concurrent"
  /\ pc[c] = "wgdone"
  /\ wg' = wg - 1
  /\ pc' = [pc EXCEPT ![c] = "exit"]
  /\ UNCHANGED <<inputVars, mainVars, fr, ret, socks, ch, chCap, chClosed,
                 panicked, sendLog, consumed, ticks, ops>>

\* The launch loop is over; wg.Wait()
WgWait ==
  /\ discipline = "concurrent"
  /\ mpc = "spawn"
  /\ i >= n
  /\ WaitReturns
  /\ mpc' = "close"
  /\ UNCHANGED <<inputVars, i, sum, ok, fail, bench, pc, fr, ret, socks, chanVars,
                 ticks, ops>>

\* close(ch)
CloseCh ==
  /\ discipline = "concurrent"
  /\ mpc = "close"
  /\ chClosed' = TRUE
  /\ mpc' = "reduce"
  /\ UNCHANGED <<inputVars, i, sum, ok, fail, bench, pc, fr, ret, socks, ch,
                 chCap, wg, panicked, sendLog, consumed, ticks, ops>>

\* One iteration of `for v := range ch`.
Reduce ==
  /\ discipline = "concurrent"
  /\ mpc = "reduce"
  /\ ch # <<>>
  /\ LET acc == ConcAcc([sum |-> sum, ok |-> ok, fail |-> fail], Head(ch))
     IN  /\ sum' = acc.sum
         /\ ok' = acc.ok
         /\ fail' = acc.fail
  /\ ch' = Tail(ch)
  /\ consumed' = consumed + 1
  /\ UNCHANGED <<inputVars, mpc, i, bench, pc, fr, ret, socks, chCap, chClosed,
                 wg, panicked, sendLog, ticks, ops>>

\* The range loop ends on the closed, drained channel: return Benchmark{...}
ConcReturn ==
  /\ discipline = "concurrent"
  /\ mpc = "reduce"
  /\ ch = <<>>
  /\ chClosed
  /\ bench' = MkBenchmark(n, sum, ok, fail)
  /\ mpc' = "done"
  /\ UNCHANGED <<inputVars, i, sum, ok, fail, pc, fr, ret, socks, chanVars,
                 ticks, ops>>

Next ==
  \/ SerialCall
  \/ SerialStep
  \/ SerialReturn
  \/ ConcSetup
  \/ Spawn
  \/ WgWait
  \/ CloseCh
  \/ Reduce
  \/ ConcReturn
  \/ \E c \in Calls : Send(c)
  \/ \E c \in Calls : WgDone(c)
  \/ \E c \in Calls : Pack(c)
  \/ \E c \in Calls : Dial(c)
  \/ \E c \in Calls : SetDeadline(c)
  \/ \E c \in Calls : Write(c)
  \/ \E c \in Calls : Read(c)
  \/ \E c \in Calls : Unpack(c)
  \/ \E c \in Calls : Finish(c)
  \/ \E c \in Calls : Close(c)

Spec == Init /\ [][Next]_vars

\* The caller's context is canceled (cmd/latency.go passes
\* context.Background(), which never is; a caller of the package may).
CancelCtx ==
  /\ ~canceled
  /\ canceled' = TRUE
  /\ UNCHANGED <<discipline, n, qnameOK, normVars, labelVars, mainVars, chanVars,
                 pc, fr, ret, socks, ticks, ops>>

NextCancel ==
  \/ CancelCtx
  \/ ConcSetup
  \/ Spawn
  \/ WgWait
  \/ CloseCh
  \/ Reduce
  \/ ConcReturn
  \/ \E c \in Calls : Send(c)
  \/ \E c \in Calls : WgDone(c)
  \/ \E c \in Calls : Pack(c)
  \/ \E c \in Calls : Dial(c)
  \/ \E c \in Calls : SetDeadline(c)
  \/ \E c \in Calls : Write(c)
  \/ \E c \in Calls : Read(c)
  \/ \E c \in Calls : Unpack(c)
  \/ \E c \in Calls : Finish(c)
  \/ \E c \in Calls : Close(c)

\* BenchmarkConcurrent for a name that packs.
InitCancel ==
  /\ Init
  /\ discipline = "concurrent"
  /\ qnameOK

\* A concurrent benchmark whose context may be canceled at any moment.
SpecCancel == InitCancel /\ [][NextCancel]_vars

(***************************************************************************)
(* normalizeServer.  A string is a sequence of characters; "1" stands for  *)
(* any character of a host name or port other than ':', '[' and ']'.       *)
(***************************************************************************)

\* Longest server string passed to ProbeA.
MaxLen == 5

Chars == {"1", ":", "[", "]"}

RECURSIVE StringsUpTo(_)
StringsUpTo(k) ==
  IF k = 0
  THEN {<<>>}
  ELSE LET shorter == StringsUpTo(k - 1)
       IN  shorter \cup {Append(t, x) : t \in {u \in shorter : Len(u) = k - 1}, x \in Chars}

\* strings.Contains(s, x) for a one-character x
Contains(s, x) == \E k \in 1 .. Len(s) : s[k] = x

\* Position of the first / last x in s, 0 when there is none
\* (strings.IndexByte + 1, strings.LastIndexByte + 1).
IndexByte(s, x) ==
  IF Contains(s, x) THEN CHOOSE k \in 1 .. Len(s) : s[k] = x /\ \A m \in 1 .. (k - 1) : s[m] # x
  ELSE 0

LastIndexByte(s, x) ==
  IF Contains(s, x) THEN CHOOSE k \in 1 .. Len(s) : s[k] = x /\ \A m \in (k + 1) .. Len(s) : s[m] # x
  ELSE 0

SplitErr == [ok |-> FALSE, host |-> <<>>, port |-> <<>>]

\* net.SplitHostPort(hostport): the port starts after the last colon; a host
\* in brackets must end just before that colon; no other bracket may occur.
SplitHostPort(hostport) ==
  LET len == Len(hostport)
      colon == LastIndexByte(hostport, ":")
      end == IndexByte(hostport, "]")
      bracketed == hostport[1] = "["
      host == IF bracketed THEN SubSeq(hostport, 2, end - 1) ELSE SubSeq(hostport, 1, colon - 1)
      j == IF bracketed THEN 2 ELSE 1
      k == IF bracketed THEN end + 1 ELSE 1
  IN  IF colon = 0 THEN SplitErr
      ELSE IF bracketed /\ (end = 0 \/ end = len \/ end + 1 # colon) THEN SplitErr
      ELSE IF ~bracketed /\ Contains(host, ":") THEN SplitErr
      ELSE IF Contains(SubSeq(hostport, j, len), "[") THEN SplitErr
      ELSE IF Contains(SubSeq(hostport, k, len), "]") THEN SplitErr
      ELSE [ok |-> TRUE, host |-> host, port |-> SubSeq(hostport, colon + 1, len)]

\* net.JoinHostPort(host, port): a host with a colon is put in brackets.
JoinHostPort(host, port) ==
  IF Contains(host, ":")
  THEN <<"[">> \o host \o <<"]", ":">> \o port
  ELSE host \o <<":">> \o port

DefaultPort == <<"5", "3">>

normalizeServer(s) ==
  IF Contains(s, ":") /\ SplitHostPort(s).ok
  THEN s
  ELSE JoinHostPort(s, DefaultPort)

InitNorm ==
  /\ Init
  /\ discipline = "serial"
  /\ n = 0
  /\ qnameOK

\* ProbeA is entered with a server string.
EnterProbe ==
  /\ npc = "off"
  /\ \E str \in StringsUpTo(MaxLen) :
       /\ srvIn' = str
       /\ server' = str
  /\ npc' = "entry"
  /\ UNCHANGED <<dialed, reported>>
  /\ UNCHANGED <<discipline, n, qnameOK, canceled, labelVars, mainVars, chanVars,
                 pc, fr, ret, socks, ticks, ops>>

\* server = normalizeServer(server)
Normalize ==
  /\ npc = "entry"
  /\ server' = normalizeServer(server)
  /\ npc' = "dial"
  /\ UNCHANGED <<srvIn, dialed, reported>>
  /\ UNCHANGED <<discipline, n, qnameOK, canceled, labelVars, mainVars, chanVars,
                 pc, fr, ret, socks, ticks, ops>>

\* conn, err := d.DialContext(ctx, network, server)
DialServer ==
  /\ npc = "dial"
  /\ dialed' = server
  /\ npc' = "report"
  /\ UNCHANGED <<srvIn, server, reported>>
  /\ UNCHANGED <<discipline, n, qnameOK, canceled, labelVars, mainVars, chanVars,
                 pc, fr, ret, socks, ticks, ops>>

\* r := Result{Server: server, ...}
ReportServer ==
  /\ npc = "report"
  /\ reported' = server
  /\ npc' = "done"
  /\ UNCHANGED <<srvIn, server, dialed>>
  /\ UNCHANGED <<discipline, n, qnameOK, canceled, labelVars, mainVars, chanVars,
                 pc, fr, ret, socks, ticks, ops>>

NextNorm ==
  \/ EnterProbe
  \/ Normalize
  \/ DialServer
  \/ ReportServer

\* What one ProbeA call does with its server argument.
SpecNorm == InitNorm /\ [][NextNorm]_vars

(***************************************************************************)
(* randomLabel, fillFromCharset and RandomDomain128WithCOM.  crypto/rand   *)
(* delivers the bytes seed, seed + stride, seed + 2 * stride, ... (mod     *)
(* 256); every byte value is delivered at every position for some seed.    *)
(***************************************************************************)

\* Largest n passed to randomLabel.
MaxReq == 64

\* if n < 1 || n > 63
MinLabel == 1
MaxLabel == 63

\* randomLabel(60), randomLabel(63)
FirstLabelLen == 60
SecondLabelLen == 63

ByteValues == 256
Strides == {0, 1}

edge_WithHyphen ==
  <<"a", "b", "c", "d", "e", "f", "g", "h", "i", "j", "k", "l", "m",
    "n", "o", "p", "q", "r", "s", "t", "u", "v", "w", "x", "y", "z",
    "0", "1", "2", "3", "4", "5", "6", "7", "8", "9", "-">>

\* const edge = "abcdefghijklmnopqrstuvwxyz0123456789"
edge ==
  <<"a", "b", "c", "d", "e", "f", "g", "h", "i", "j", "k", "l", "m",
    "n", "o", "p", "q", "r", "s", "t", "u", "v", "w", "x", "y", "z",
    "0", "1", "2", "3", "4", "5", "6", "7", "8", "9">>

\* const mid = "abcdefghijklmnopqrstuvwxyz0123456789-"
mid ==
  <<"a", "b", "c", "d", "e", "f", "g", "h", "i", "j", "k", "l", "m",
    "n", "o", "p", "q", "r", "s", "t", "u", "v", "w", "x", "y", "z",
    "0", "1", "2", "3", "4", "5", "6", "7", "8", "9", "-">>

\* The byte rand.Read delivers as its k-th (k = 0, 1, ...) of the run.
RandByte(k) == (seed + k * stride) % ByteValues

\* fillFromCharset(o[lo-1:hi], charset) when rand.Read succeeds:
\* dst[i] = charset[int(b[i]) % len(charset)]
fillFromCharset(o, lo, hi, charset) ==
  [k \in 1 .. Len(o) |->
     IF lo <= k /\ k <= hi
     THEN charset[(RandByte(rpos + k - lo) % Len(charset)) + 1]
     ELSE o[k]]

StrErr == [set |-> TRUE, err |-> TRUE, s |-> <<>>]
StrOk(str) == [set |-> TRUE, err |-> FALSE, s |-> str]

InitLabel ==
  /\ Init
  /\ discipline = "serial"
  /\ n = 0
  /\ qnameOK

\* A caller other than RandomDomain128WithCOM calls randomLabel(k).
CallLabel ==
  /\ lpc = "off" /\ dpc = "off"
  /\ \E k \in 0 .. MaxReq : ln' = k
  /\ seed' \in 0 .. (ByteValues - 1)
  /\ stride' \in Strides
  /\ caller' = "label"
  /\ lpc' = "check"
  /\ UNCHANGED <<rpos, out, lret, randErr, dpc, l1, dret>>
  /\ UNCHANGED <<discipline, n, qnameOK, canceled, normVars, mainVars, chanVars,
                 pc, fr, ret, socks, ticks, ops>>

\* if n < 1 || n > 63 { return "", fmt.Errorf(...) }; out := make([]byte, n)
CheckLen ==
  /\ lpc = "check"
  /\ IF ln < MinLabel \/ ln > MaxLabel
     THEN /\ lret' = StrErr
          /\ lpc' = "ret"
          /\ out' = out
     ELSE /\ out' = [k \in 1 .. ln |-> "NUL"]
          /\ lpc' = "first"
          /\ lret' = lret
  /\ UNCHANGED <<caller, ln, seed, stride, rpos, randErr, dpc, l1, dret>>
  /\ UNCHANGED <<discipline, n, qnameOK, canceled, normVars, mainVars, chanVars,
                 pc, fr, ret, socks, ticks, ops>>

\* One `if err := fillFromCharset(out[lo-1:hi], charset); err != nil { return "", err }`
FillStep(at, lo, hi, charset, then) ==
  /\ lpc = at
  /\ \E okv \in BOOLEAN :
       IF okv
       THEN /\ out' = fillFromCharset(out, lo, hi, charset)
            /\ rpos' = rpos + (hi - lo + 1)
            /\ lpc' = then
            /\ UNCHANGED <<lret, randErr>>
       ELSE /\ lret' = StrErr
            /\ randErr' = TRUE
            /\ lpc' = "ret"
            /\ UNCHANGED <<out, rpos>>
  /\ UNCHANGED <<caller, ln, seed, stride, dpc, l1, dret>>
  /\ UNCHANGED <<discipline, n, qnameOK, canceled, normVars, mainVars, chanVars,
                 pc, fr, ret, socks, ticks, ops>>

\* `if cond { ... }` not taken
SkipStep(at, then) ==
  /\ lpc = at
  /\ lpc' = then
  /\ UNCHANGED <<caller, ln, seed, stride, rpos, out, lret, randErr, dpc, l1, dret>>
  /\ UNCHANGED <<discipline, n, qnameOK, canceled, normVars, mainVars, chanVars,
                 pc, fr, ret, socks, ticks, ops>>

\* fillFromCharset(out[:1], edge)
FillFirst == FillStep("first", 1, 1, edge, "mid")

\* if n > 2 { fillFromCharset(out[1:n-1], mid) }
FillMid ==
  IF ln > 2 THEN FillStep("mid", 2, ln - 1, mid, "last") ELSE SkipStep("mid", "last")

\* if n > 1 { fillFromCharset(out[n-1:], edge) }
FillLast ==
  IF ln > 1 THEN FillStep("last", ln, ln, edge, "return") ELSE SkipStep("last", "return")

\* return string(out), nil
ReturnLabel ==
  /\ lpc = "return"
  /\ lret' = StrOk(out)
  /\ lpc' = "ret"
  /\ UNCHANGED <<caller, ln, seed, stride, rpos, out, randErr, dpc, l1, dret>>
  /\ UNCHANGED <<discipline, n, qnameOK, canceled, normVars, mainVars, chanVars,
                 pc, fr, ret, socks, ticks, ops>>

\* RandomDomain128WithCOM is called: l1, err := randomLabel(60)
CallDomain ==
  /\ lpc = "off" /\ dpc = "off"
  /\ seed' \in 0 .. (ByteValues - 1)
  /\ stride' \in Strides
  /\ caller' = "domain"
  /\ ln' = FirstLabelLen
  /\ lpc' = "check"
  /\ dpc' = "first"
  /\ UNCHANGED <<rpos, out, lret, randErr, l1, dret>>
  /\ UNCHANGED <<discipline, n, qnameOK, canceled, normVars, mainVars, chanVars,
                 pc, fr, ret, socks, ticks, ops>>

\* if err != nil { return "", err }; l2, err := randomLabel(63)
DomainSecond ==
  /\ dpc = "first" /\ lpc = "ret"
  /\ IF lret.err
     THEN /\ dret' = StrErr
          /\ dpc' = "ret"
          /\ UNCHANGED <<ln, lpc, lret, l1>>
     ELSE /\ l1' = lret.s
          /\ ln' = SecondLabelLen
          /\ lpc' = "check"
          /\ lret' = NoStr
          /\ dpc' = "second"
          /\ dret' = dret
  /\ UNCHANGED <<caller, seed, stride, rpos, out, randErr>>
  /\ UNCHANGED <<discipline, n, qnameOK, canceled, normVars, mainVars, chanVars,
                 pc, fr, ret, socks, ticks, ops>>

\* if err != nil { return "", err }; return fmt.Sprintf("%s.%s.com", l1, l2), nil
DomainReturn ==
  /\ dpc = "second" /\ lpc = "ret"
  /\ dret' = IF lret.err
             THEN StrErr
             ELSE StrOk(l1 \o <<".">> \o lret.s \o <<".", "c", "o", "m">>)
  /\ dpc' = "ret"
  /\ UNCHANGED <<caller, lpc, ln, seed, stride, rpos, out, lret, randErr, l1>>
  /\ UNCHANGED <<discipline, n, qnameOK, canceled, normVars, mainVars, chanVars,
                 pc, fr, ret, socks, ticks, ops>>

NextLabel ==
  \/ CallLabel
  \/ CheckLen
  \/ FillFirst
  \/ FillMid
  \/ FillLast
  \/ ReturnLabel
  \/ CallDomain
  \/ DomainSecond
  \/ DomainReturn

\* One call of randomLabel or of RandomDomain128WithCOM.
SpecLabel == InitLabel /\ [][NextLabel]_vars

(***************************************************************************)
(* Properties                                                              *)
(***************************************************************************)

Done == mpc = "done"

\* The calls of the run that have returned to their caller.
Returned == {c \in Calls : pc[c] \in {"ret", "wgdone", "exit", "panic"}}

\* The calls that returned a result, and those that returned an error.
Succeeded == {c \in 1 .. n : ret[c].set /\ ~ret[c].err}
Failed == {c \in 1 .. n : ret[c].set /\ ret[c].err}

\* Sum of one phase over the successful ones among the calls 1..k.
RECURSIVE SumPhase(_, _)
SumPhase(ph, k) ==
  IF k = 0
  THEN 0
  ELSE SumPhase(ph, k - 1) + (IF ret[k].set /\ ~ret[k].err THEN ret[k].t[ph] ELSE 0)

\* The serial reduction of the outcomes of calls 1..k, taken in call order.
RECURSIVE SerialFold(_)
SerialFold(k) ==
  IF k = 0
  THEN [sum |-> ZeroTimings, ok |-> 0, fail |-> 0]
  ELSE SerialAcc(SerialFold(k - 1), ret[k])

SendsOf(c) == Cardinality({k \in DOMAIN sendLog : sendLog[k] = c})

InProbe == {"pack", "dial", "deadline", "write", "read", "unpack", "finish", "close"}

\* C1: the Benchmark returned by either discipline has Attempts = n and
\* Success + Fail = Attempts, whatever probes succeeded or failed.
C1_CountsAddUp ==
  Done => /\ bench.Attempts = n
          /\ bench.Success + bench.Fail = bench.Attempts

C1_Witness ==
  /\ Done
  /\ discipline = "concurrent"
  /\ n >= 2
  /\ bench.Success >= 1
  /\ bench.Fail >= 1

\* C2: Success is the number of probe calls that returned a result and Fail
\* the number that returned an error; when all n fail the run still returns,
\* with Success = 0, Fail = n and all averages zero.
C2_CountsExact ==
  /\ ~panicked
  /\ ~Done => ENABLED Next
  /\ Done => /\ bench.Success = Cardinality(Succeeded)
             /\ bench.Fail = Cardinality(Failed)
             /\ Cardinality(Failed) = n =>
                  /\ bench.Success = 0
                  /\ bench.Fail = n
                  /\ bench.Avg = ZeroTimings

C2_Witness ==
  /\ Done
  /\ discipline = "concurrent"
  /\ n >= 2
  /\ Cardinality(Failed) = n
  /\ bench.Fail = n

\* C3: every averaged phase is the sum of that phase over the successful
\* probes divided (integer division) by Success, and zero when Success = 0.
C3_AvgIsMeanOfSuccesses ==
  Done => \A ph \in Phases :
            bench.Avg[ph] = IF bench.Success = 0
                            THEN 0
                            ELSE Quot(SumPhase(ph, n), bench.Success)

C3_Witness ==
  /\ Done
  /\ discipline = "serial"
  /\ bench.Success >= 1
  /\ bench.Fail >= 1
  /\ bench.Avg.Read >= 1

\* C4: in the concurrent discipline every task is launched and has finished
\* before the reduction reads its first outcome; when the channel is closed
\* it holds exactly n outcomes, one per task, and the reduction consumes
\* exactly those n.
C4_JoinThenReduce ==
  discipline = "concurrent" =>
    /\ (consumed > 0 \/ mpc \in {"reduce", "done"}) =>
         /\ i = n
         /\ \A c \in 1 .. n : pc[c] = "exit"
    /\ chClosed =>
         /\ Len(ch) + consumed = n
         /\ \A c \in 1 .. n : SendsOf(c) = 1
    /\ Done => consumed = n

C4_Witness ==
  /\ discipline = "concurrent"
  /\ n >= 2
  /\ mpc = "reduce"
  /\ consumed = 0
  /\ Len(ch) = n

\* C5: in the concurrent discipline no send on the result channel blocks:
\* the buffer never exceeds capacity n, a task about to send finds room,
\* each task sends once, none sends after the close, and the run never
\* deadlocks.
C5_SendNeverBlocks ==
  discipline = "concurrent" =>
    /\ mpc # "setup" => chCap = n
    /\ Len(ch) <= n
    /\ \A c \in Calls :
         /\ SendsOf(c) <= 1
         /\ pc[c] = "ret" => (Len(ch) < chCap /\ ~chClosed)
         /\ pc[c] \in {"wgdone", "exit"} => SendsOf(c) = 1
    /\ ~panicked
    /\ ~Done => ENABLED Next

C5_Witness ==
  /\ discipline = "concurrent"
  /\ n >= 2
  /\ Len(ch) = n - 1
  /\ \E c \in Calls : pc[c] = "ret"

\* C6: the concurrent discipline returns the Benchmark that the serial
\* reduction yields on the same probe outcomes, whatever order the tasks
\* finished in.
C6_ConcurrentEqualsSerial ==
  (discipline = "concurrent" /\ Done) =>
    LET acc == SerialFold(n)
    IN  bench = MkBenchmark(n, acc.sum, acc.ok, acc.fail)

C6_Witness ==
  /\ discipline = "concurrent"
  /\ Done
  /\ n >= 2
  /\ sendLog[1] = 2
  /\ ret[1] # ret[2]
  /\ bench.Success >= 1
  /\ bench.Avg # ZeroTimings

\* C7: the serial discipline invokes the probe exactly n times, one after
\* another with at most one in flight, and goes on after a failed probe.
C7_SerialOneAtATime ==
  discipline = "serial" =>
    /\ Cardinality({c \in Calls : pc[c] \in InProbe \cup {"ret"}}) <= 1
    /\ \A c \in Calls : (c > 1 /\ pc[c] # "idle") => pc[c - 1] = "exit"
    /\ \A c \in Calls : ops[c].call <= 1
    /\ Done => /\ \A c \in 1 .. n : ops[c].call = 1 /\ pc[c] = "exit"
               /\ \A c \in Calls : c > n => ops[c].call = 0

C7_Witness ==
  /\ discipline = "serial"
  /\ Done
  /\ n >= 2
  /\ ret[1].err
  /\ ops[2].call = 1
  /\ ~ret[2].err

\* C8: a socket is open only while the call that dialed it is still inside
\* the probe; once the probe has returned, and once the benchmark has
\* returned, it is closed; and only the task that opened a socket uses it.
C8_SocketsClosedAndOwned ==
  /\ \A s \in Calls :
       /\ socks[s].state = "open" =>
            /\ socks[s].opener \in Calls
            /\ pc[socks[s].opener] \in {"deadline", "write", "read", "unpack",
                                        "finish", "close"}
       /\ socks[s].state # "none" => socks[s].users = {socks[s].opener}
  /\ \A c \in Returned : ops[c].close = ops[c].open
  /\ Done => \A s \in Calls : socks[s].state # "open"

C8_Witness ==
  /\ Done
  /\ discipline = "concurrent"
  /\ \E c \in Calls :
       /\ ops[c].write = 1
       /\ ops[c].read = 0
       /\ socks[c].state = "closed"
       /\ \E c2 \in Calls \ {c} : socks[c2].state = "closed" /\ ~ret[c2].err

\* C9 as stated: every probe call opens exactly one socket and closes
\* exactly one, whatever its outcome.
C9_ExactlyOneSocketAlways ==
  \A c \in Returned : ops[c].open = 1 /\ ops[c].close = 1

\* C9 amended: a probe call opens at most one socket and closes each socket
\* it opened; it opens (and closes) exactly one when its dial succeeds and
\* none when packing or the dial fails.
C9_OneSocketIffDialed ==
  /\ \A c \in Calls : ops[c].open <= 1 /\ ops[c].close <= ops[c].open
  /\ \A c \in Returned :
       /\ ops[c].close = ops[c].open
       /\ ops[c].open = ops[c].dialok
       /\ ops[c].dial <= 1

C9_Witness ==
  /\ Done
  /\ \E c \in Returned : ops[c].open = 1 /\ ops[c].close = 1
  /\ \E c \in Returned : ops[c].dial = 1 /\ ops[c].open = 0 /\ ops[c].close = 0

\* C10: when serializing the query fails the probe returns the error with
\* an empty result and does no network operation: no dial, write or read.
C10_PackErrorNoIO ==
  ~qnameOK =>
    /\ \A c \in Calls :
         /\ ops[c].dial = 0 /\ ops[c].write = 0 /\ ops[c].read = 0
         /\ ops[c].open = 0
         /\ socks[c].state = "none"
    /\ \A c \in Returned : ret[c] = ErrRet

C10_Witness ==
  /\ ~qnameOK
  /\ discipline = "serial"
  /\ Done
  /\ n >= 1
  /\ \A c \in 1 .. n : ops[c].call = 1 /\ ret[c] = ErrRet

\* The place of a statement of ProbeA in the order the code runs them.
Rank(p) ==
  CASE p = "idle" -> 0
    [] p = "pack" -> 1
    [] p = "dial" -> 2
    [] p = "deadline" -> 3
    [] p = "write" -> 4
    [] p = "read" -> 5
    [] p = "unpack" -> 6
    [] p = "finish" -> 7
    [] p = "close" -> 8
    [] OTHER -> 9

\* The dial of call c was attempted and returned an error.
DialFailed(c) == ops[c].dial = 1 /\ ops[c].dialok = 0

\* C11: a probe never retries: dial, write and read are each attempted at
\* most once per call and no phase is ever entered again, and the first
\* failure among dial, write, read and unpack ends the call with the error
\* and an empty result, no later phase being executed.
C11_NoRetryFirstFailureEnds ==
  /\ [](\A c \in Calls :
          /\ ops[c].dial <= 1 /\ ops[c].write <= 1 /\ ops[c].read <= 1
          /\ DialFailed(c) =>
               /\ ops[c].write = 0 /\ ops[c].read = 0
               /\ pc[c] \in {"ret", "wgdone", "exit"}
               /\ ret[c] = ErrRet
          /\ fr[c].err => pc[c] = "close")
  /\ [][\A c \in Calls :
          pc'[c] # pc[c] =>
            /\ Rank(pc'[c]) > Rank(pc[c]) \/ Rank(pc[c]) = 9
            /\ fr[c].err => (pc'[c] = "ret" /\ ret'[c] = ErrRet)]_vars

C11_Witness ==
  \E c \in Calls :
    /\ pc[c] = "ret"
    /\ ret[c] = ErrRet
    /\ ops[c].dial = 1 /\ ops[c].dialok = 1
    /\ ops[c].write = 1
    /\ ops[c].read = 0

\* C12 as stated: for every probe call the time from the start of the dial
\* to the end of the read (success or error) is at most the timeout.
C12_TimeoutBoundsExchange ==
  [][\A c \in Calls :
       (pc[c] = "read" /\ pc'[c] # "read") =>
         fr'[c].clk - fr'[c].tDial <= Timeout]_vars

\* C12 amended: the timeout bounds the dial and, separately, the write and
\* the read: the dial lasts at most timeout, and a write or read that blocks
\* ends no later than timeout after the instant the deadline was set, which
\* is after the dial returned.
C12_TimeoutBoundsDialAndIO ==
  /\ [](\A c \in Calls : fr[c].dial <= Timeout)
  /\ [][\A c \in Calls :
          /\ (pc[c] = "write" /\ pc'[c] # "write") =>
               (fr'[c].write = 0 \/ fr'[c].clk <= fr[c].deadline)
          /\ (pc[c] = "read" /\ pc'[c] # "read") =>
               (fr'[c].read = 0 \/ fr'[c].clk <= fr[c].deadline)
          /\ (pc[c] = "deadline" /\ pc'[c] # "deadline") =>
               fr'[c].deadline = fr'[c].clk + Timeout]_vars

C12_Witness ==
  \E c \in Calls :
    /\ pc[c] = "unpack"
    /\ fr[c].dial = Timeout
    /\ fr[c].read >= 1
    /\ fr[c].clk <= fr[c].deadline
    /\ fr[c].clk - fr[c].tDial > Timeout

\* C13: for every successful probe each of total, dial, pack, write, read
\* and unpack is >= 0 and total is >= each of the five phases.
C13_PhasesNonNegativeWithinTotal ==
  \A c \in Calls :
    (ret[c].set /\ ~ret[c].err) =>
      \A ph \in Phases \ {"RTTApprox"} :
        /\ ret[c].t[ph] >= 0
        /\ ret[c].t.Total >= ret[c].t[ph]

C13_Witness ==
  \E c \in Calls :
    /\ ret[c].set /\ ~ret[c].err
    /\ ret[c].t.Pack >= 1
    /\ ret[c].t.Total > ret[c].t.Pack

\* C14: for every successful probe rttApprox is exactly the sum of the
\* write and read durations reported in the same result.
C14_RTTIsWritePlusRead ==
  \A c \in Calls :
    (ret[c].set /\ ~ret[c].err) =>
      ret[c].t.RTTApprox = ret[c].t.Write + ret[c].t.Read

C14_Witness ==
  \E c \in Calls :
    /\ ret[c].set /\ ~ret[c].err
    /\ ret[c].t.Write >= 1
    /\ ret[c].t.Read >= 1

\* A serial benchmark has returned and every one of its probes succeeded.
SerialAllSucceeded ==
  /\ Done
  /\ discipline = "serial"
  /\ n >= 1
  /\ Cardinality(Succeeded) = n

\* C15 as stated: for a serial benchmark whose probes all succeed,
\* Avg.Total * Success equals the sum of the successful totals exactly.
C15_AvgTotalExactMean ==
  SerialAllSucceeded =>
    bench.Avg.Total * bench.Success = SumPhase("Total", n)

\* C15 amended: for a serial benchmark whose probes all succeed, Avg.Total
\* is the sum of the totals divided by Success and truncated toward zero:
\* Avg.Total * Success <= sum < Avg.Total * Success + Success, with equality
\* on the left exactly when Success divides the sum.
C15_AvgTotalTruncatedMean ==
  SerialAllSucceeded =>
    /\ bench.Success = n
    /\ bench.Avg.Total * bench.Success <= SumPhase("Total", n)
    /\ SumPhase("Total", n) < bench.Avg.Total * bench.Success + bench.Success
    /\ (SumPhase("Total", n) % bench.Success = 0) <=>
         (bench.Avg.Total * bench.Success = SumPhase("Total", n))

C15_Witness ==
  /\ SerialAllSucceeded
  /\ bench.Success >= 2
  /\ SumPhase("Total", n) % bench.Success # 0
  /\ bench.Avg.Total * bench.Success < SumPhase("Total", n)

\* C20 as stated: the averaged timings of a Benchmark satisfy
\* Avg.RTTApprox = Avg.Write + Avg.Read.
C20_AvgRTTIsAvgWritePlusAvgRead ==
  Done => bench.Avg.RTTApprox = bench.Avg.Write + bench.Avg.Read

\* C20 amended: the sums keep the relation (sum of RTTApprox = sum of Write
\* + sum of Read), but the three averages are truncated independently, so
\* Avg.Write + Avg.Read <= Avg.RTTApprox <= Avg.Write + Avg.Read + 1.
C20_AvgRTTWithinOneOfSum ==
  /\ sum.RTTApprox = sum.Write + sum.Read
  /\ Done =>
       /\ bench.Avg.Write + bench.Avg.Read <= bench.Avg.RTTApprox
       /\ bench.Avg.RTTApprox <= bench.Avg.Write + bench.Avg.Read + 1

C20_Witness ==
  /\ Done
  /\ bench.Success >= 2
  /\ sum.Write >= 1
  /\ sum.Read >= 1
  /\ bench.Avg.RTTApprox = bench.Avg.Write + bench.Avg.Read + 1

\* The statement ProbeA runs after statement p when p succeeds.
NextPhase(p) ==
  CASE p = "pack" -> "dial"
    [] p = "dial" -> "deadline"
    [] p = "deadline" -> "write"
    [] p = "write" -> "read"
    [] p = "read" -> "unpack"
    [] p = "unpack" -> "finish"
    [] p = "finish" -> "close"
    [] OTHER -> "ret"

\* The five timed durations of a frame or of a result's timings, added up.
FrameSum(f) == f.pack + f.dial + f.write + f.read + f.unpack
FiveSum(t) == t.Dial + t.Pack + t.Write + t.Read + t.Unpack

\* C19: within one probe the phases run in the order pack, dial,
\* set-deadline, write, read, unpack, each entered only after the previous
\* one succeeded, and the deadline is set before any write or read; the
\* timed intervals are disjoint and inside the total interval, so every
\* successful probe has total >= dial + pack + write + read + unpack.
C19_PhasesOrderedAndDisjoint ==
  /\ [](\A c \in Calls :
          /\ (ret[c].set /\ ~ret[c].err) => ret[c].t.Total >= FiveSum(ret[c].t)
          /\ pc[c] \in InProbe => FrameSum(fr[c]) <= fr[c].clk
          /\ pc[c] \in {"write", "read"} =>
               /\ ~fr[c].err
               /\ fr[c].deadline >= fr[c].tDial + fr[c].dial + Timeout
          /\ (ops[c].write >= 1 \/ ops[c].read >= 1) => ops[c].dialok = 1
          /\ ops[c].read >= 1 => ops[c].write = 1)
  /\ [][\A c \in Calls :
          (pc[c] \in InProbe /\ pc'[c] # pc[c]) =>
            /\ pc'[c] \in {NextPhase(pc[c]), "close", "ret"}
            /\ (pc'[c] = NextPhase(pc[c]) /\ pc'[c] # "close") => ~fr'[c].err
            /\ (pc[c] # "pack" /\ pc'[c] \in InProbe) =>
                 /\ fr'[c].clk >= fr[c].clk
                 /\ FrameSum(fr'[c]) - FrameSum(fr[c]) <= fr'[c].clk - fr[c].clk]_vars

C19_Witness ==
  \E c \in Calls :
    /\ ret[c].set /\ ~ret[c].err
    /\ ret[c].t.Pack >= 1
    /\ ret[c].t.Read >= 1
    /\ ret[c].t.Total > FiveSum(ret[c].t)

\* C18: cancellation of the context affects only the dial: a probe whose
\* dial has not completed when the context is canceled fails at dial and is
\* counted as a failure, while a probe whose connection is established is
\* left as it was --- socket open, deadline unchanged --- and can still
\* complete its write and its read as long as its own deadline has not passed.
C18_CancelAffectsOnlyDial ==
  /\ [](/\ \A c \in Calls :
             /\ (canceled /\ pc[c] = "write" /\ fr[c].clk < fr[c].deadline) =>
                  /\ socks[fr[c].conn].state = "open"
                  /\ ENABLED (Write(c) /\ pc'[c] = "read")
             /\ (canceled /\ pc[c] = "read" /\ fr[c].clk < fr[c].deadline) =>
                  /\ socks[fr[c].conn].state = "open"
                  /\ ENABLED (Read(c) /\ pc'[c] = "unpack")
        /\ Done => /\ bench.Fail = Cardinality(Failed)
                   /\ \A c \in 1 .. n : DialFailed(c) => c \in Failed)
  /\ [][/\ \A c \in Calls :
             (canceled /\ pc[c] = "dial" /\ pc'[c] # "dial") =>
               /\ pc'[c] = "ret"
               /\ ret'[c] = ErrRet
               /\ DialFailed(c)'
               /\ socks'[c].state = "none"
        /\ canceled' # canceled => UNCHANGED <<pc, fr, ret, socks, ops>>]_vars

C18_Witness ==
  \E c1, c2 \in Calls :
    /\ canceled
    /\ pc[c1] = "read" /\ ops[c1].write = 1 /\ fr[c1].clk < fr[c1].deadline
    /\ pc[c2] = "dial"

\* A server string that names a host and no port: a name or IPv4 address
\* (no colon, no bracket), an IPv6 address (colons, no bracket), or an IPv6
\* address in brackets.
Bracketed(s) ==
  /\ Len(s) >= 3
  /\ s[1] = "[" /\ s[Len(s)] = "]"
  /\ ~Contains(SubSeq(s, 2, Len(s) - 1), "[")
  /\ ~Contains(SubSeq(s, 2, Len(s) - 1), "]")

HostWithoutPort(s) ==
  /\ Len(s) >= 1
  /\ \/ Bracketed(s)
     \/ /\ ~Contains(s, "[") /\ ~Contains(s, "]")
        /\ ~SplitHostPort(s).ok

HostOf(s) == IF Bracketed(s) THEN SubSeq(s, 2, Len(s) - 1) ELSE s

\* C16: a server string with no port gets the default port 53 (the result
\* is the host:port of the given host and port 53), a server string that is
\* a valid host:port is returned unchanged, and the probe dials and reports
\* exactly the normalized string.
C16_NormalizeAddsDefaultPort ==
  /\ npc \in {"dial", "report", "done"} =>
       /\ SplitHostPort(srvIn).ok => server = srvIn
       /\ HostWithoutPort(srvIn) =>
            /\ SplitHostPort(server).ok
            /\ SplitHostPort(server).host = HostOf(srvIn)
            /\ SplitHostPort(server).port = DefaultPort
  /\ npc \in {"report", "done"} => dialed = server
  /\ npc = "done" => reported = server

\* The characters [a-z0-9].
Alnum ==
  {"a", "b", "c", "d", "e", "f", "g", "h", "i", "j", "k", "l", "m",
   "n", "o", "p", "q", "r", "s", "t", "u", "v", "w", "x", "y", "z",
   "0", "1", "2", "3", "4", "5", "6", "7", "8", "9"}

\* str is a label of exactly k characters: first and last in [a-z0-9],
\* the characters between them in [a-z0-9-].
IsLabel(str, k) ==
  /\ Len(str) = k
  /\ k >= 1
  /\ str[1] \in Alnum
  /\ str[k] \in Alnum
  /\ \A m \in 2 .. (k - 1) : str[m] \in Alnum \cup {"-"}

\* C17: randomLabel(n) fails and produces no label when n is outside
\* [1,63]; for n in [1,63], whatever the random bytes, it returns a label
\* of exactly n characters, first and last in [a-z0-9], interior in
\* [a-z0-9-] (a single edge character for n = 1), failing only if the
\* random source does; RandomDomain128WithCOM returns
\* <60-char label>.<63-char label>.com.
C17_LabelShape ==
  /\ lret.set =>
       /\ (ln < 1 \/ ln > 63) => (lret.err /\ lret.s = <<>> /\ ~randErr)
       /\ (ln >= 1 /\ ln <= 63) =>
            /\ lret.err <=> randErr
            /\ lret.err => lret.s = <<>>
            /\ ~lret.err => IsLabel(lret.s, ln)
       /\ (ln = 1 /\ ~lret.err) => (Len(lret.s) = 1 /\ lret.s[1] \in Alnum)
  /\ dret.set =>
       /\ dret.err <=> randErr
       /\ dret.err => dret.s = <<>>
       /\ ~dret.err =>
            /\ Len(dret.s) = 128
            /\ IsLabel(SubSeq(dret.s, 1, 60), 60)
            /\ dret.s[61] = "."
            /\ IsLabel(SubSeq(dret.s, 62, 124), 63)
            /\ SubSeq(dret.s, 125, 128) = <<".", "c", "o", "m">>

C17_Witness ==
  /\ dret.set /\ ~dret.err
  /\ dret.s[2] = "-"
  /\ dret.s[123] = "-"
  /\ dret.s[1] = "a"

====
